---- MODULE Spec2Model ----
(***************************************************************************)
(* Model of the datadog-static-analyzer command line driver                *)
(* (bins/src/bin/datadog-static-analyzer.rs) and of the environment and    *)
(* ruleset lookup of cli/src/datadog_utils.rs, and of the SARIF export of  *)
(* cli/src/sarif/sarif_utils.rs.                                           *)
(*                                                                         *)
(* Spec     : one run of main, from the parsed command line to the exit.   *)
(* SpecEnv  : get_datadog_variable_value / get_ruleset /                   *)
(*            get_rules_from_rulesets over a bounded environment.          *)
(* SpecReport : what main does with the aggregated results: the            *)
(*            performance statistics and the SARIF report of               *)
(*            cli/src/sarif/sarif_utils.rs, applied to bounded inputs.     *)
(* SpecScatter : the parallel section of one language, run twice.          *)
(***************************************************************************)
EXTENDS Integers, Sequences, FiniteSets, TLC

(***************************************************************************)
(* Bounds of the model.                                                    *)
(***************************************************************************)
MaxRules == 2
MaxFiles == 2
MaxCpus == 4
MaxRulesets == 2
MaxPos == 2
MaxEdits == 2
MaxFixes == 2
MaxViolations == 2
MaxResults == 2
MaxSarifRules == 2
MaxTime == 2

(***************************************************************************)
(* The rule languages of the run, and the tag of a file that belongs to    *)
(* none of them.                                                           *)
(***************************************************************************)
Languages == {"python", "javascript"}
NoLanguage == "none"

(* Exit statuses of the process: a normal return of main (0),              *)
(* std::process::exit(1) or a main that returns Err (1), a panic (101).    *)
EXIT_OK == 0
EXIT_FAILURE == 1
EXIT_PANIC == 101

VARIABLES
    args,                   \* the parsed command line and the scanned directory
    pc,                     \* position of main
    exit_code,              \* process status once pc = "done" (-1 before)
    exit_reason,            \* diagnostic of the termination
    exit_at,                \* position main was at when the process ended
    rule_source_read,       \* which rule loader has been called
    use_configuration_file,
    rules,                  \* configuration.rules
    languages,              \* get_languages_for_rules(&rules)
    files_to_analyze,       \* get_files(...)
    num_cpus,               \* configuration.num_cpus (-1 before it is set)
    num_threads,            \* threads asked of the rayon pool (-1 before)
    lang_idx,               \* index of the language of the current iteration
    rules_for_language,     \* converted rules of the current iteration
    pending,                \* files of the current batch not yet processed
    file_results,           \* per file of the current batch, the closure's value
    all_rule_results,       \* the aggregated results
    total_files_analyzed,
    nb_violations,          \* the printed total (-1 before it is computed)
    read_errors,            \* paths reported by "error when getting content of path"
    analyze_calls,          \* the calls of analyze made so far, with their return
    \* cli/src/datadog_utils.rs
    env,                    \* the environment of the process
    epc,                    \* position of get_rules_from_rulesets
    rulesets_name,          \* its argument
    ruleset_idx,            \* index of the ruleset of the current iteration
    requests,               \* the requests get_ruleset has sent
    api_rules,              \* the rules accumulated by get_rules_from_rulesets
    api_result,             \* its return: "", "ok", or the error's context
    lookup,                 \* the last call of get_datadog_variable_value
    \* the report: statistics of main, cli/src/sarif/sarif_utils.rs
    op,                     \* the operation applied last ("none" before)
    input,                  \* its arguments
    output,                 \* what it returned or printed
    \* the parallel section, run twice
    run,                    \* 1 or 2: the run in progress (3: both done)
    batch,                  \* the files and rules of both runs
    started,                \* files a worker has picked up in this run
    completed,              \* file names, in the order the workers finished
    closure_value,          \* per completed file, the value of the closure
    gathered                \* per finished run, the collected vector

mainvars == << args, pc, exit_code, exit_reason, exit_at, rule_source_read,
               use_configuration_file, rules, languages, files_to_analyze,
               num_cpus, num_threads, lang_idx, rules_for_language, pending,
               file_results, all_rule_results, total_files_analyzed,
               nb_violations, read_errors, analyze_calls >>

envvars == << env, epc, rulesets_name, ruleset_idx, requests, api_rules,
              api_result, lookup >>

reportvars == << op, input, output >>

scattervars == << run, batch, started, completed, closure_value, gathered >>

vars == << mainvars, envvars, reportvars, scattervars >>

(***************************************************************************)
(* Data                                                                    *)
(***************************************************************************)
\* A rule as loaded: its name, its declared language, whether its encoded
\* payload decodes, and whether its checksum matches its content.
RuleNames == 1..MaxRules

\* The rule lists a loader can return: rule i of the list is named i.
RuleLists ==
    UNION { { rs \in [1..k -> [name : RuleNames, language : Languages,
                                decodable : BOOLEAN, checksum_ok : BOOLEAN]] :
                \A i \in 1..k : rs[i].name = i } : k \in 0..MaxRules }

\* The file lists get_files can return: file i of the list is named i and
\* has the language its extension gives it.
FileLists ==
    UNION { { fs \in [1..k -> [name : 1..MaxFiles,
                                language : Languages \cup {NoLanguage}]] :
                \A i \in 1..k : fs[i].name = i } : k \in 0..MaxFiles }

RECURSIVE SeqSum(_)
SeqSum(s) == IF s = << >> THEN 0 ELSE Head(s) + SeqSum(Tail(s))

RECURSIVE Flatten(_)
Flatten(ss) == IF ss = << >> THEN << >> ELSE Head(ss) \o Flatten(Tail(ss))

Range(s) == { s[i] : i \in DOMAIN s }

\* The sequences without repetition whose elements are exactly the set S.
Orderings(S) ==
    { s \in [1..Cardinality(S) -> S] : Range(s) = S }

(***************************************************************************)
(* External collaborators of main (cli::file_utils, kernel::model::rule,   *)
(* kernel::analysis::analyze): what main relies on.                        *)
(***************************************************************************)
\* get_languages_for_rules: the distinct languages of the rules, in some order.
get_languages_for_rules(rs) == Orderings({ rs[i].language : i \in DOMAIN rs })

\* filter_files_for_language: the files of the list whose language is l,
\* in the order of the list.
filter_files_for_language(fs, l) ==
    SelectSeq(fs, LAMBDA f : f.language = l)

\* Rule::to_rule_internal: fails when the encoded payload cannot be decoded.
to_rule_internal_ok(r) == r.decodable

\* The number of matches of rule r in file f: the contents of the files are
\* fixed, so this is a fixed table (0, 1 or 2 matches).
NMatches(f, r) == (f.name + 2 * r.name) % 3

analyzeUnverified(l, rs, f) ==
    LET scheduled == SelectSeq(rs, LAMBDA r : r.language = l)
    IN  [ i \in 1..Len(scheduled) |->
            [ rule_name  |-> scheduled[i].name,
              filename   |-> f.name,
              violations |-> [ k \in 1..NMatches(f, scheduled[i]) |-> k ] ] ]

\* analyze: one RuleResult per scheduled rule, in the order of the rules; a
\* rule is scheduled when its checksum is verified and its language is the
\* language of the file. The violations are the matches, in source order.
analyze(l, rs, f) ==
    LET scheduled == SelectSeq(rs, LAMBDA r : r.checksum_ok /\ r.language = l)
    IN  [ i \in 1..Len(scheduled) |->
            [ rule_name  |-> scheduled[i].name,
              filename   |-> f.name,
              violations |-> [ k \in 1..NMatches(f, scheduled[i]) |-> k ] ] ]

(***************************************************************************)
(* cli/src/datadog_utils.rs                                                *)
(***************************************************************************)
\* The values of an environment variable: not set, set to a value that is
\* not valid Unicode, or set to a string (possibly empty).
NotPresent == "<not present>"
NotUnicode == "<not unicode>"
EnvStrings == {"", "a"}
EnvValues == {NotPresent, NotUnicode} \cup EnvStrings

Variables == {"SITE", "APP_KEY", "API_KEY"}

\* Line 9.
DEFAULT_DATADOG_SITE == "datadoghq.com"

\* Line 26: format!("{}_{}", prefix, variable).
EnvName(prefix, variable) == << prefix, variable >>

EnvNames == { EnvName(p, v) : p \in {"DD", "DATADOG"}, v \in Variables }

Ok(v) == [ok |-> TRUE, value |-> v]
Err == [ok |-> FALSE, value |-> ""]

\* std::env::var: Err when the variable is not present or is not Unicode.
env_var(e, name) ==
    IF e[name] = NotPresent \/ e[name] = NotUnicode THEN Err ELSE Ok(e[name])

\* Lines 25-32: the first prefix whose variable reads, or an error.
RECURSIVE first_value(_, _, _)
first_value(e, prefixes, variable) ==
    IF prefixes = << >> THEN Err
    ELSE LET var_content == env_var(e, EnvName(Head(prefixes), variable))
         IN  IF var_content.ok THEN var_content
             ELSE first_value(e, Tail(prefixes), variable)

get_datadog_variable_value_datadog_first(e, variable) ==
    first_value(e, << "DATADOG", "DD" >>, variable)

\* Lines 23-33.
get_datadog_variable_value(e, variable) ==
    first_value(e, << "DD", "DATADOG" >>, variable)

with_auth_any_key(headers, app_key, api_key) ==
    headers
      \o (IF api_key.ok THEN << << "dd-api-key", api_key.value >> >> ELSE << >>)
      \o (IF app_key.ok THEN << << "dd-application-key", app_key.value >> >> ELSE << >>)

\* Lines 52-57: the credentials are added when both keys are defined.
with_auth(headers, app_key, api_key) ==
    IF app_key.ok /\ api_key.ok
    THEN headers \o << << "dd-api-key", api_key.value >>,
                       << "dd-application-key", app_key.value >> >>
    ELSE headers

\* Lines 39-57: the request get_ruleset builds.
ruleset_request(e, ruleset_name) ==
    LET site == IF get_datadog_variable_value(e, "SITE").ok
                THEN get_datadog_variable_value(e, "SITE").value
                ELSE DEFAULT_DATADOG_SITE
        app_key == get_datadog_variable_value(e, "APP_KEY")
        api_key == get_datadog_variable_value(e, "API_KEY")
    IN  [ url     |-> << "https://api.", site,
                         "/api/v2/static-analysis/rulesets/", ruleset_name >>,
          headers |-> with_auth(<< << "Content-Type", "application/json" >> >>,
                                app_key, api_key) ]

\* The state of the module while main is the process modelled.
EnvIdle ==
    /\ env = [ n \in EnvNames |-> NotPresent ]
    /\ epc = "idle"
    /\ rulesets_name = << >>
    /\ ruleset_idx = 1
    /\ requests = << >>
    /\ api_rules = << >>
    /\ api_result = ""
    /\ lookup = [variable |-> "", result |-> Err]

\* The state of the report and of the parallel section while another
\* process is the one modelled.
ReportIdle ==
    /\ op = "none"
    /\ input = << >>
    /\ output = << >>

ScatterIdle ==
    /\ run = 0
    /\ batch = << >>
    /\ started = {}
    /\ completed = << >>
    /\ closure_value = << >>
    /\ gathered = << >>

(***************************************************************************)
(* main                                                                    *)
(***************************************************************************)
Configs == {"none", "present", "malformed"}

\* The command lines main can be started with. The directory is a directory
\* only when one is given, and only a directory holds a configuration file.
ArgsSet ==
    { a \in [parse_ok : BOOLEAN, v : BOOLEAN, h : BOOLEAN, o : BOOLEAN,
             i : BOOLEAN, is_dir : BOOLEAN, config : Configs, r : BOOLEAN] :
        /\ (~a.parse_ok => ~a.v /\ ~a.h /\ ~a.o /\ ~a.i /\ ~a.r)
        /\ (~a.i => ~a.is_dir)
        /\ (~a.is_dir => a.config = "none") }

\* The state of main before it starts.
MainStart ==
    /\ exit_code = -1
    /\ exit_reason = ""
    /\ exit_at = ""
    /\ rule_source_read = "none"
    /\ use_configuration_file = FALSE
    /\ rules = << >>
    /\ languages = << >>
    /\ files_to_analyze = << >>
    /\ num_cpus = -1
    /\ num_threads = -1
    /\ lang_idx = 1
    /\ rules_for_language = << >>
    /\ pending = {}
    /\ file_results = << >>
    /\ all_rule_results = << >>
    /\ total_files_analyzed = 0
    /\ nb_violations = -1
    /\ read_errors = {}
    /\ analyze_calls = {}

Init ==
    /\ args \in ArgsSet
    /\ pc = "check_arguments"
    /\ MainStart
    /\ EnvIdle
    /\ ReportIdle
    /\ ScatterIdle

\* What a rule loader (get_rules_from_rulesets, get_rulesets_from_file)
\* returns: Ok(rules) or Err.
LoadOutcomes ==
    [ok : {TRUE}, rules : RuleLists] \cup [ok : {FALSE}, rules : {<< >>}]

\* The process ends with status code at the present position.
Exit(code, reason) ==
    /\ pc' = "done"
    /\ exit_code' = code
    /\ exit_reason' = reason
    /\ exit_at' = pc

Goto(p) ==
    /\ pc' = p
    /\ UNCHANGED << exit_code, exit_reason, exit_at >>

\* Lines 96-159: option parsing, -v, -h, and the checks of -o and -i.
CheckArguments ==
    /\ pc = "check_arguments"
    /\ IF ~args.parse_ok THEN Exit(EXIT_PANIC, "error when parsing arguments")
       ELSE IF args.v THEN Exit(EXIT_FAILURE, "version")
       ELSE IF args.h THEN Exit(EXIT_FAILURE, "help")
       ELSE IF ~args.o THEN Exit(EXIT_FAILURE, "output file not specified")
       ELSE IF ~args.i THEN Exit(EXIT_FAILURE, "no directory passed")
       ELSE IF ~args.is_dir
            THEN Exit(EXIT_FAILURE, "directory to analyze is not correct")
       ELSE Goto("load_rules")
    /\ UNCHANGED << envvars, reportvars, scattervars >>
    /\ UNCHANGED << args, rule_source_read, use_configuration_file, rules,
                    languages, files_to_analyze, num_cpus, num_threads,
                    lang_idx, rules_for_language, pending, file_results,
                    all_rule_results, total_files_analyzed, nb_violations,
                    read_errors, analyze_calls >>

\* Line 169: a rule file is given although a configuration file is present.
NeverConflicting(a) == FALSE

ConflictingRuleSource(a) == a.r

\* Line 185: no configuration file and no rule file.
MissingRuleSource(a) == ~a.r

\* Lines 161-198: the configuration file, then the rules from the API or
\* from the rule file. got is what the loader returns: Ok(rules) or Err.
LoadRules ==
    /\ pc = "load_rules"
    /\ \E got \in LoadOutcomes :
         IF args.config = "malformed"
         THEN /\ Exit(EXIT_PANIC, "cannot read configuration file")
              /\ UNCHANGED << rule_source_read, use_configuration_file, rules >>
         ELSE IF args.config = "present"
         THEN /\ use_configuration_file' = TRUE
              /\ IF ConflictingRuleSource(args)
                 THEN /\ Exit(EXIT_FAILURE, "a rule file cannot be specified when a configuration file is present")
                      /\ UNCHANGED << rule_source_read, rules >>
                 ELSE /\ rule_source_read' = "api"
                      /\ IF ~got.ok
                         THEN /\ Exit(EXIT_FAILURE, "error when reading rules from API")
                              /\ UNCHANGED rules
                         ELSE /\ rules' = rules \o got.rules
                              /\ Goto("prepare")
         ELSE /\ use_configuration_file' = FALSE
              /\ IF MissingRuleSource(args)
                 THEN /\ Exit(EXIT_FAILURE, "no configuration and no rule files specified")
                      /\ UNCHANGED << rule_source_read, rules >>
                 ELSE /\ rule_source_read' = "file"
                      /\ IF ~got.ok
                         THEN /\ Exit(EXIT_FAILURE, "cannot read ruleset")
                              /\ UNCHANGED rules
                         ELSE /\ rules' = rules \o got.rules
                              /\ Goto("prepare")
    /\ UNCHANGED << envvars, reportvars, scattervars >>
    /\ UNCHANGED << args, languages, files_to_analyze, num_cpus, num_threads,
                    lang_idx, rules_for_language, pending, file_results,
                    all_rule_results, total_files_analyzed, nb_violations,
                    read_errors, analyze_calls >>

\* What get_files returns: Ok(files) or Err.
FilesOutcomes ==
    [ok : {TRUE}, files : FileLists] \cup [ok : {FALSE}, files : {<< >>}]

\* The -c option: absent, not a number, or a number.
CpuOptions ==
    {[given |-> FALSE, valid |-> TRUE, value |-> 0],
     [given |-> TRUE, valid |-> FALSE, value |-> 0]}
    \cup [given : {TRUE}, valid : {TRUE}, value : 0..MaxCpus]

\* Lines 238: ((num_cpus as f32 - 1.0) * 0.90) as usize. The cast truncates
\* toward zero and saturates a negative value to 0; for the CPU counts of
\* the model the f32 product truncates to the integer part of 9(n-1)/10.
ideal_threads(n) ==
    LET tenths == 9 * (n - 1)
    IN  IF tenths < 0 THEN 0 ELSE tenths \div 10

NumThreadsNoGuard(n) == ideal_threads(n)

\* Line 239.
NumThreads(n) == IF ideal_threads(n) = 0 THEN 1 ELSE ideal_threads(n)

\* Lines 200-249: languages of the rules, the files, the CPU count and the
\* thread pool. detected is num_cpus::get(); pool_ok is build_global's result.
Prepare ==
    /\ pc = "prepare"
    /\ \E ls \in get_languages_for_rules(rules), got \in FilesOutcomes,
          c \in CpuOptions, detected \in 1..MaxCpus, pool_ok \in BOOLEAN :
         IF ~got.ok
         THEN /\ Exit(EXIT_PANIC, "unable to get the list of files to analyze")
              /\ UNCHANGED << languages, files_to_analyze, num_cpus, num_threads >>
         ELSE IF ~c.valid
         THEN /\ Exit(EXIT_PANIC, "invalid number of cpus")
              /\ UNCHANGED << languages, files_to_analyze, num_cpus, num_threads >>
         ELSE LET n == IF c.given THEN c.value ELSE detected
              IN  /\ languages' = ls
                  /\ files_to_analyze' = got.files
                  /\ num_cpus' = n
                  /\ num_threads' = NumThreads(n)
                  /\ IF pool_ok THEN Goto("loop")
                     ELSE Exit(EXIT_FAILURE, "cannot build the thread pool")
    /\ UNCHANGED << envvars, reportvars, scattervars >>
    /\ UNCHANGED << args, rule_source_read, use_configuration_file, rules,
                    lang_idx, rules_for_language, pending, file_results,
                    all_rule_results, total_files_analyzed, nb_violations,
                    read_errors, analyze_calls >>

\* Lines 256-259: the rules of the language.
RulesOfLanguageNoFilter(rs, l) == rs

RulesOfLanguage(rs, l) == SelectSeq(rs, LAMBDA r : r.language = l)

\* Lines 251-264: the head of one iteration of the loop over the languages:
\* the files and the rules of the language, each rule converted.
BeginLanguage ==
    /\ pc = "loop"
    /\ lang_idx <= Len(languages)
    /\ LET language == languages[lang_idx]
           files_for_language == filter_files_for_language(files_to_analyze, language)
           selected == RulesOfLanguage(rules, language)
       IN  /\ total_files_analyzed' = total_files_analyzed + Len(files_for_language)
           /\ IF \E i \in DOMAIN selected : ~to_rule_internal_ok(selected[i])
              THEN /\ Exit(EXIT_FAILURE, "cannot convert to rule internal")
                   /\ UNCHANGED << rules_for_language, pending, file_results >>
              ELSE /\ rules_for_language' = selected
                   /\ pending' = { files_for_language[i].name :
                                     i \in DOMAIN files_for_language }
                   /\ file_results' = << >>
                   /\ Goto("analyze")
    /\ UNCHANGED << envvars, reportvars, scattervars >>
    /\ UNCHANGED << args, rule_source_read, use_configuration_file, rules,
                    languages, files_to_analyze, num_cpus, num_threads,
                    lang_idx, all_rule_results, nb_violations, read_errors,
                    analyze_calls >>

\* Lines 277-292: the closure of the parallel iterator on one file, run by
\* some worker of the pool. readable is the result of fs::read_to_string.
\* The relative path of a file get_files returned is below the scanned
\* directory and is valid Unicode.
ReadResultIgnoringError(language, rs, f, readable) == analyze(language, rs, f)

ReadResult(language, rs, f, readable) ==
    IF readable THEN analyze(language, rs, f) ELSE << >>

AnalyzeFile(name) ==
    /\ pc = "analyze"
    /\ name \in pending
    /\ \E readable \in BOOLEAN :
         LET language == languages[lang_idx]
             f == files_to_analyze[name]
             res == ReadResult(language, rules_for_language, f, readable)
         IN  /\ file_results' =
                   [ x \in DOMAIN file_results \cup {name} |->
                       IF x = name THEN res ELSE file_results[x] ]
             /\ IF readable
                THEN /\ analyze_calls' = analyze_calls \cup
                          { [language |-> language, rules |-> rules_for_language,
                             file |-> name, result |-> res] }
                     /\ UNCHANGED read_errors
                ELSE /\ read_errors' = read_errors \cup {name}
                     /\ UNCHANGED analyze_calls
    /\ pending' = pending \ {name}
    /\ UNCHANGED << envvars, reportvars, scattervars >>
    /\ UNCHANGED << args, pc, exit_code, exit_reason, exit_at, rule_source_read,
                    use_configuration_file, rules, languages, files_to_analyze,
                    num_cpus, num_threads, lang_idx, rules_for_language,
                    all_rule_results, total_files_analyzed, nb_violations >>

\* Lines 275-276, 293: flat_map(...).collect() gathers the values of the
\* closure in the order of files_for_language.
Gather(files_for_language, results) ==
    Flatten([ i \in 1..Len(files_for_language) |->
                results[files_for_language[i].name] ])

\* Lines 275, 293-294: the gathered results are assigned to all_rule_results
\* and the iteration ends.
Collect ==
    /\ pc = "analyze"
    /\ pending = {}
    /\ LET language == languages[lang_idx]
           files_for_language == filter_files_for_language(files_to_analyze, language)
       IN  all_rule_results' = Gather(files_for_language, file_results)
    /\ lang_idx' = lang_idx + 1
    /\ rules_for_language' = << >>
    /\ file_results' = << >>
    /\ Goto("loop")
    /\ UNCHANGED << envvars, reportvars, scattervars >>
    /\ UNCHANGED << args, rule_source_read, use_configuration_file, rules,
                    languages, files_to_analyze, num_cpus, num_threads,
                    pending, total_files_analyzed, nb_violations, read_errors,
                    analyze_calls >>

\* Lines 301-304.
CountViolations(results) ==
    SeqSum([ i \in 1..Len(results) |-> Len(results[i].violations) ])

\* Lines 296-312: after the loop, the total of the violations is printed.
Report ==
    /\ pc = "loop"
    /\ lang_idx > Len(languages)
    /\ nb_violations' = CountViolations(all_rule_results)
    /\ Goto("write")
    /\ UNCHANGED << envvars, reportvars, scattervars >>
    /\ UNCHANGED << args, rule_source_read, use_configuration_file, rules,
                    languages, files_to_analyze, num_cpus, num_threads,
                    lang_idx, rules_for_language, pending, file_results,
                    all_rule_results, total_files_analyzed, read_errors,
                    analyze_calls >>

\* Lines 355-370: the report is serialized (JSON or SARIF) and written.
WriteOutcomes ==
    {"ok", "sarif error", "no data", "cannot create file", "write error"}

WriteReport ==
    /\ pc = "write"
    /\ \E format \in {"json", "sarif"}, outcome \in WriteOutcomes :
         /\ (outcome = "sarif error" => format = "sarif")
         /\ IF outcome = "sarif error"
            THEN Exit(EXIT_PANIC, "Error when generating the sarif report")
            ELSE IF outcome = "cannot create file"
            THEN Exit(EXIT_FAILURE, "cannot create file")
            ELSE IF outcome = "no data"
            THEN Exit(EXIT_PANIC, "cannot get data")
            ELSE IF outcome = "write error"
            THEN Exit(EXIT_FAILURE, "error when writing results")
            ELSE Exit(EXIT_OK, "")
    /\ UNCHANGED << envvars, reportvars, scattervars >>
    /\ UNCHANGED << args, rule_source_read, use_configuration_file, rules,
                    languages, files_to_analyze, num_cpus, num_threads,
                    lang_idx, rules_for_language, pending, file_results,
                    all_rule_results, total_files_analyzed, nb_violations,
                    read_errors, analyze_calls >>

Next ==
    \/ CheckArguments
    \/ LoadRules
    \/ Prepare
    \/ BeginLanguage
    \/ \E name \in 1..MaxFiles : AnalyzeFile(name)
    \/ Collect
    \/ Report
    \/ WriteReport

Spec == Init /\ [][Next]_vars

(***************************************************************************)
(* Properties of main                                                      *)
(***************************************************************************)
\* The results the closure has produced in the current batch, and the
\* aggregated ones.
ResultsInHand ==
    Range(all_rule_results) \cup
    UNION { Range(file_results[x]) : x \in DOMAIN file_results }

\* The value analyze returned for a file that was read.
ReturnedFor(name) ==
    IF \E c \in analyze_calls : c.file = name
    THEN (CHOOSE c \in analyze_calls : c.file = name).result
    ELSE << >>

RECURSIVE ViolationsOfCalls(_)
ViolationsOfCalls(calls) ==
    IF calls = {} THEN 0
    ELSE LET c == CHOOSE x \in calls : TRUE
         IN  CountViolations(c.result) + ViolationsOfCalls(calls \ {c})

LoopCompleted == nb_violations # -1

\* C1: once the loop over the languages has completed, all_rule_results
\* holds every RuleResult analyze returned, for every readable file of every
\* language, and the reported total is the sum of their violations.
C1_AllLanguagesAggregated ==
    LoopCompleted =>
        /\ \A c \in analyze_calls : Range(c.result) \subseteq Range(all_rule_results)
        /\ nb_violations = ViolationsOfCalls(analyze_calls)

\* What the batch of the previous iteration must have gathered: nothing for
\* a file whose read failed, the value analyze returned for any other file.
ExpectedOfBatch(language) ==
    LET ffl == filter_files_for_language(files_to_analyze, language)
    IN  Flatten([ i \in 1..Len(ffl) |->
                    IF ffl[i].name \in read_errors THEN << >>
                    ELSE ReturnedFor(ffl[i].name) ])

C3_OnlyRulesOfTheLanguage ==
    /\ \A c \in analyze_calls :
          /\ files_to_analyze[c.file].language = c.language
          /\ \A i \in DOMAIN c.rules : c.rules[i].language = c.language
    /\ \A r \in ResultsInHand :
          rules[r.rule_name].language = files_to_analyze[r.filename].language

\* analyze was called with some rules while a rule of another language is
\* loaded.
C3_Witness ==
    \E c \in analyze_calls :
        /\ c.rules # << >>
        /\ \E i \in DOMAIN rules : rules[i].language # c.language

\* C4: a rule whose checksum does not match its content produces no
\* RuleResult, and it does not end the run: the run ends in the head of an
\* iteration only on a rule that cannot be decoded.
C4_MismatchedChecksumExcluded ==
    /\ \A r \in ResultsInHand : rules[r.rule_name].checksum_ok
    /\ (pc = "done" /\ exit_at = "loop" =>
          \E i \in DOMAIN rules : ~rules[i].decodable)

\* Two rules of one language are loaded, one with a mismatched checksum; a
\* file was analyzed with both and the results come from the other rule.
C4_Witness ==
    /\ pc = "write"
    /\ all_rule_results # << >>
    /\ \E c \in analyze_calls :
          /\ Len(c.rules) = 2
          /\ \E i \in DOMAIN c.rules : ~c.rules[i].checksum_ok
          /\ Range(c.result) \subseteq Range(all_rule_results)

\* C5: every failure that ends the run happens before any file has been
\* read and analyzed.
C5_FatalOnlyBeforeAnyFile ==
    pc = "done" /\ exit_code # EXIT_OK =>
        analyze_calls = {} /\ read_errors = {}

\* C6: a rule whose payload cannot be decoded is only excluded: the run
\* does not end on the conversion of the rules.
C6_UndecodableRuleOnlyExcluded ==
    pc = "done" => exit_reason # "cannot convert to rule internal"

\* C7: the thread count given to the pool is at least 1, and at most
\* num_cpus - 1 when num_cpus is at least 2.
C7_WorkerThreadsBounded ==
    num_threads # -1 =>
        /\ num_threads >= 1
        /\ (num_cpus >= 2 => num_threads <= num_cpus - 1)

\* The pool was built with more than one thread, one core left free.
C7_Witness ==
    /\ pc = "loop"
    /\ num_cpus >= 2
    /\ num_threads >= 2

\* The command lines of the fatal configuration cases: no output path, no
\* directory, not a directory, a rule file with a configuration file,
\* neither of them.
FatalConfiguration(a) ==
    \/ ~a.o
    \/ ~a.i
    \/ ~a.is_dir
    \/ (a.config = "present" /\ a.r)
    \/ (a.config = "none" /\ ~a.r)

\* C8: in each fatal configuration case no rule loader is called, no file
\* is read or analyzed, and the process ends with a non-zero status.
C8_FatalConfigurationExits ==
    FatalConfiguration(args) =>
        /\ pc \in {"check_arguments", "load_rules", "done"}
        /\ rule_source_read = "none"
        /\ rules = << >>
        /\ analyze_calls = {} /\ read_errors = {}
        /\ (pc = "done" => exit_code # EXIT_OK)

\* The run ended on a rule file given with a configuration file.
C8_Witness ==
    /\ pc = "done"
    /\ args.o /\ args.is_dir /\ args.config = "present" /\ args.r
    /\ exit_code = EXIT_FAILURE
    /\ exit_at = "load_rules"

(***************************************************************************)
(* get_rules_from_rulesets over an environment                             *)
(***************************************************************************)
InitEnv ==
    /\ args = [parse_ok |-> TRUE, v |-> FALSE, h |-> FALSE, o |-> TRUE,
               i |-> TRUE, is_dir |-> TRUE, config |-> "present", r |-> FALSE]
    /\ pc = "load_rules"
    /\ MainStart
    /\ env \in [EnvNames -> EnvValues]
    /\ epc = "rulesets"
    /\ rulesets_name \in { [ i \in 1..k |-> i ] : k \in 0..MaxRulesets }
    /\ ruleset_idx = 1
    /\ requests = << >>
    /\ api_rules = << >>
    /\ api_result = ""
    /\ lookup = [variable |-> "", result |-> Err]
    /\ ReportIdle
    /\ ScatterIdle

\* Lines 23-33: a call of get_datadog_variable_value.
LookupVariable(variable) ==
    /\ lookup' = [variable |-> variable,
                  result |-> get_datadog_variable_value(env, variable)]
    /\ UNCHANGED << env, epc, rulesets_name, ruleset_idx, requests, api_rules,
                    api_result >>
    /\ UNCHANGED << mainvars, reportvars, scattervars >>

\* Lines 14-16 and 38-65: one iteration of get_rules_from_rulesets: the
\* request of get_ruleset is built and sent; the answer is a ruleset, a
\* failure of the query, or a response that does not parse.
GetRuleset ==
    /\ epc = "rulesets"
    /\ ruleset_idx <= Len(rulesets_name)
    /\ requests' = Append(requests, ruleset_request(env, rulesets_name[ruleset_idx]))
    /\ \E answer \in {"ruleset", "error querying rulesets",
                      "error when parsing the server response"} :
         IF answer = "ruleset"
         THEN /\ api_rules' = Append(api_rules, rulesets_name[ruleset_idx])
              /\ ruleset_idx' = ruleset_idx + 1
              /\ UNCHANGED << epc, api_result >>
         ELSE /\ api_result' = answer
              /\ epc' = "returned"
              /\ UNCHANGED << api_rules, ruleset_idx >>
    /\ UNCHANGED << env, rulesets_name, lookup >>
    /\ UNCHANGED << mainvars, reportvars, scattervars >>

\* Line 17: every ruleset was fetched.
RulesetsDone ==
    /\ epc = "rulesets"
    /\ ruleset_idx > Len(rulesets_name)
    /\ api_result' = "ok"
    /\ epc' = "returned"
    /\ UNCHANGED << env, rulesets_name, ruleset_idx, requests, api_rules, lookup >>
    /\ UNCHANGED << mainvars, reportvars, scattervars >>

NextEnv ==
    \/ \E variable \in Variables : LookupVariable(variable)
    \/ GetRuleset
    \/ RulesetsDone

SpecEnv == InitEnv /\ [][NextEnv]_vars

(***************************************************************************)
(* Properties of the environment lookup and of the ruleset request         *)
(***************************************************************************)
Looked == lookup.variable # ""

Set(v) == v # NotPresent

Readable(v) == v # NotPresent /\ v # NotUnicode

\* C9 as stated: the value of DD_V whenever DD_V is set, the value of
\* DATADOG_V when only DATADOG_V is set, an error exactly when neither is set.
C9_LookupOfSetVariables ==
    Looked =>
        LET dd == env[EnvName("DD", lookup.variable)]
            datadog == env[EnvName("DATADOG", lookup.variable)]
        IN  /\ (Set(dd) => lookup.result = Ok(dd))
            /\ (~Set(dd) /\ Set(datadog) => lookup.result = Ok(datadog))
            /\ (~lookup.result.ok <=> ~Set(dd) /\ ~Set(datadog))

\* C9, amended: the value of DD_V whenever DD_V is set to valid Unicode,
\* otherwise the value of DATADOG_V when it is set to valid Unicode, and
\* an error exactly when neither holds valid Unicode.
C9_LookupOfReadableVariables ==
    Looked =>
        LET dd == env[EnvName("DD", lookup.variable)]
            datadog == env[EnvName("DATADOG", lookup.variable)]
        IN  /\ (Readable(dd) => lookup.result = Ok(dd))
            /\ (~Readable(dd) /\ Readable(datadog) => lookup.result = Ok(datadog))
            /\ (~lookup.result.ok <=> ~Readable(dd) /\ ~Readable(datadog))

\* A lookup of a variable set under both prefixes to different values
\* returned the DD_ one.
C9_Witness ==
    /\ Looked
    /\ Readable(env[EnvName("DD", lookup.variable)])
    /\ Readable(env[EnvName("DATADOG", lookup.variable)])
    /\ env[EnvName("DD", lookup.variable)] # env[EnvName("DATADOG", lookup.variable)]
    /\ lookup.result = Ok(env[EnvName("DD", lookup.variable)])

HeaderNames(request) == { request.headers[i][1] : i \in DOMAIN request.headers }

\* A key is resolved when one of its two variables holds valid Unicode.
Resolved(variable) ==
    \E p \in {"DD", "DATADOG"} : Readable(env[EnvName(p, variable)])

\* The get_ruleset calls made so far: one per fetched ruleset, and the one
\* that failed.
RulesetCalls ==
    Len(api_rules) + (IF api_result \notin {"", "ok"} THEN 1 ELSE 0)

\* C10: every request of get_ruleset carries both credential headers or
\* neither, both exactly when the application key and the API key are both
\* resolved; every call sends its request, with or without credentials.
C10_CredentialsBothOrNeither ==
    /\ Len(requests) = RulesetCalls
    /\ \A i \in DOMAIN requests :
          LET names == HeaderNames(requests[i])
          IN  /\ ("dd-api-key" \in names <=> "dd-application-key" \in names)
              /\ ("dd-api-key" \in names <=>
                     Resolved("APP_KEY") /\ Resolved("API_KEY"))

\* A request was sent without credentials while only the API key is
\* resolved.
C10_Witness ==
    /\ requests # << >>
    /\ Resolved("API_KEY")
    /\ ~Resolved("APP_KEY")
    /\ HeaderNames(requests[1]) = {"Content-Type"}

(***************************************************************************)
(* cli/src/sarif/sarif_utils.rs                                            *)
(***************************************************************************)
\* Option<T>.
Some(x) == [some |-> TRUE, value |-> x]
None == [some |-> FALSE]

\* A call returns a value or panics.
Returned(x) == [panic |-> FALSE, value |-> x]
Panicked == [panic |-> TRUE]

\* kernel::model::common::Position: a line and a column.
Position(l, c) == [line |-> l, col |-> c]

Positions == { Position(l, c) : l \in 0..MaxPos, c \in 0..MaxPos }

\* kernel::model::violation::Edit.
EditTypes == {"Add", "Remove", "Update"}

Edits ==
    [ edit_type : EditTypes,
      start     : Positions,
      end       : {None} \cup { Some(q) : q \in Positions },
      content   : {None, Some("newcontent")} ]

\* sarif::Region with the four fields the code sets.
Region(sl, sc, el, ec) ==
    [startLine |-> sl, startColumn |-> sc, endLine |-> el, endColumn |-> ec]

\* sarif::Replacement: inserted_content stays None when it is not set.
Replacement(region, inserted) ==
    [deletedRegion |-> region, insertedContent |-> inserted]

\* Lines 116-121, 124-129: self.end.clone().unwrap_or(Position {0, 0}).
end_or_default(e) == IF e.end.some THEN e.end.value ELSE Position(0, 0)

into_sarif_edit_add_to_end(e) ==
    IF e.edit_type = "Add"
    THEN IF ~e.content.some THEN Panicked
         ELSE Returned(Replacement(
                  Region(e.start.line, e.start.col,
                         end_or_default(e).line, end_or_default(e).col),
                  Some([text |-> e.content.value])))
    ELSE IF e.edit_type = "Remove"
    THEN Returned(Replacement(Region(e.start.line, e.start.col,
                                     e.start.line, e.start.col), None))
    ELSE IF ~e.content.some THEN Panicked
         ELSE Returned(Replacement(
                  Region(e.start.line, e.start.col,
                         end_or_default(e).line, end_or_default(e).col),
                  Some([text |-> e.content.value])))

\* Lines 75-144: IntoSarif for &Edit. content.as_ref().unwrap() panics when
\* an Add or an Update has no content.
into_sarif_edit(e) ==
    IF e.edit_type = "Add"
    THEN IF ~e.content.some THEN Panicked
         ELSE Returned(Replacement(
                  Region(e.start.line, e.start.col, e.start.line, e.start.col),
                  Some([text |-> e.content.value])))
    ELSE IF e.edit_type = "Remove"
    THEN Returned(Replacement(
             Region(e.start.line, e.start.col, e.start.line, e.start.col),
             None))
    ELSE IF ~e.content.some THEN Panicked
         ELSE Returned(Replacement(
                  Region(e.start.line, e.start.col,
                         end_or_default(e).line, end_or_default(e).col),
                  Some([text |-> e.content.value])))

\* kernel::model::rule::RuleSeverity: the three severities the code names
\* and one it does not.
Severities == {"Notice", "Warning", "Error", "None"}

get_level_from_severity_notice(severity) ==
    IF severity = "Notice" THEN "notice"
    ELSE IF severity = "Warning" THEN "warning"
    ELSE IF severity = "Error" THEN "error"
    ELSE "none"

\* Lines 166-174.
get_level_from_severity(severity) ==
    IF severity = "Notice" THEN "note"
    ELSE IF severity = "Warning" THEN "warning"
    ELSE IF severity = "Error" THEN "error"
    ELSE "none"

\* An encoded description: whether it is base64 at all, whether the decoded
\* bytes are UTF-8, and the text they spell.
Encoded(is_base64, is_utf8, text) ==
    [is_base64 |-> is_base64, is_utf8 |-> is_utf8, text |-> text]

\* Lines 44-55, 57-68: decode(...).unwrap() panics on a payload that is not
\* base64; bytes that are not UTF-8 are replaced by the fallback text.
decode_description(d, fallback) ==
    IF ~d.is_base64 THEN Panicked
    ELSE Returned(IF d.is_utf8 THEN d.text ELSE fallback)

\* Rule::get_url.
get_url(rule) ==
    << "https://docs.datadoghq.com/continuous_integration/static_analysis/rules/",
       rule.name >>

\* Lines 37-72: IntoSarif for &Rule.
into_sarif_rule(rule) ==
    LET full == IF rule.description_base64.some
                THEN decode_description(rule.description_base64.value,
                                        "invalid full description")
                ELSE Returned("")
        short == IF rule.short_description_base64.some
                 THEN decode_description(rule.short_description_base64.value,
                                         "invalid short description")
                 ELSE Returned("")
    IN  IF full.panic \/ short.panic THEN Panicked
        ELSE Returned(
               [ id               |-> rule.name,
                 fullDescription  |-> IF rule.description_base64.some
                                      THEN Some([text |-> full.value]) ELSE None,
                 shortDescription |-> IF rule.short_description_base64.some
                                      THEN Some([text |-> short.value]) ELSE None,
                 helpUri          |-> get_url(rule) ])

\* Lines 147-160: the tool section, one descriptor per rule, in order.
generate_tool_section(rules_) ==
    IF \E i \in DOMAIN rules_ : into_sarif_rule(rules_[i]).panic THEN Panicked
    ELSE Returned(
           [ driver |->
               [ name           |-> "datadog-static-analyzer",
                 informationUri |-> "https://www.datadoghq.com",
                 rules          |-> [ i \in 1..Len(rules_) |->
                                        into_sarif_rule(rules_[i]).value ] ] ])

\* The state of git: whether the directory opens as a repository, the files
\* git can blame, and the lines of such a file that a blame hunk covers (the
\* lines, from 1, of the committed file).
GitStates(filenames) ==
    [ repo_ok       : BOOLEAN,
      blamed_files  : SUBSET filenames,
      blamed_lines  : { 1..n : n \in 0..MaxPos } ]

\* The commit id git blame gives for a line of a file.
commit_id(filename, line) == << "commit", filename, line >>

\* Lines 176-197: None without a repository or when the file cannot be
\* blamed; get_line(line).unwrap() panics when no hunk covers the line.
get_sha_for_line(filename, line, options, git) ==
    IF ~options.git_repo THEN Returned(None)
    ELSE IF filename \in git.blamed_files
    THEN IF line \in git.blamed_lines
         THEN Returned(Some(commit_id(filename, line)))
         ELSE Panicked
    ELSE Returned(None)

\* Iterator::position: the index, from 0, of the first rule of that name.
position_last(rules_, name) ==
    IF \E i \in DOMAIN rules_ : rules_[i].name = name
    THEN Some((CHOOSE i \in DOMAIN rules_ :
                  /\ rules_[i].name = name
                  /\ \A j \in DOMAIN rules_ : rules_[j].name = name => j <= i) - 1)
    ELSE None

position(rules_, name) ==
    IF \E i \in DOMAIN rules_ : rules_[i].name = name
    THEN Some((CHOOSE i \in DOMAIN rules_ :
                  /\ rules_[i].name = name
                  /\ \A j \in DOMAIN rules_ : rules_[j].name = name => i <= j) - 1)
    ELSE None

\* str::to_uppercase on the names of the categories.
to_uppercase(category) ==
    IF category = "best_practices" THEN "BEST_PRACTICES"
    ELSE IF category = "security" THEN "SECURITY"
    ELSE category

\* Lines 212-220: what the rule of the result sets on the builder.
rule_part(rules_, rule_result) ==
    LET found == position(rules_, rule_result.rule_name)
    IN  IF found.some
        THEN [ ruleIndex |-> Some(found.value),
               level     |-> Some(get_level_from_severity(
                                    rules_[found.value + 1].severity)),
               tags      |-> << << "DATADOG_CATEGORY:",
                                   to_uppercase(rules_[found.value + 1].category) >> >> ]
        ELSE [ ruleIndex |-> None, level |-> None, tags |-> << >> ]

fix_replacements_without_remove(fix) ==
    LET kept == SelectSeq(fix.edits, LAMBDA e : e.edit_type # "Remove")
    IN  [ i \in 1..Len(kept) |-> into_sarif_edit(kept[i]) ]

\* Lines 251-252: the replacements of a fix, one per edit, in order.
fix_replacements(fix) ==
    [ i \in 1..Len(fix.edits) |-> into_sarif_edit(fix.edits[i]) ]

\* Lines 250-270: a Fix becomes a SARIF fix with one artifact change.
fix_into_sarif(fix, filename) ==
    LET replacements == fix_replacements(fix)
    IN  IF \E i \in DOMAIN replacements : replacements[i].panic THEN Panicked
        ELSE Returned(
               [ description     |-> [text |-> fix.description],
                 artifactChanges |->
                   << [ artifactLocation |-> [uri |-> filename],
                        replacements |-> [ i \in DOMAIN replacements |->
                                             replacements[i].value ] ] >> ])

\* Lines 223-302: the SARIF result of one violation of a rule result.
violation_into_sarif(rules_, rule_result, violation, options, git) ==
    LET part == rule_part(rules_, rule_result)
        fixes == [ i \in 1..Len(violation.fixes) |->
                     fix_into_sarif(violation.fixes[i], rule_result.filename) ]
        sha_option == get_sha_for_line(rule_result.filename,
                                       violation.start.line, options, git)
    IN  IF (\E i \in DOMAIN fixes : fixes[i].panic) \/ sha_option.panic
        THEN Panicked
        ELSE Returned(
               [ ruleId      |-> rule_result.rule_name,
                 ruleIndex   |-> part.ruleIndex,
                 level       |-> part.level,
                 locations   |->
                   << [ physicalLocation |->
                          [ artifactLocation |-> [uri |-> rule_result.filename],
                            region |-> Region(violation.start.line,
                                              violation.start.col,
                                              violation.end.line,
                                              violation.end.col) ] ] >>,
                 fixes       |-> [ i \in DOMAIN fixes |-> fixes[i].value ],
                 message     |-> [text |-> violation.message],
                 properties  |-> [tags |-> part.tags],
                 partialFingerprints |->
                   IF sha_option.value.some
                   THEN { << "SHA", sha_option.value.value >> }
                   ELSE {} ])

results_of_rule_result(rules_, rule_result, options, git) ==
    [ k \in 1..Len(rule_result.violations) |->
        violation_into_sarif(rules_, rule_result, rule_result.violations[k],
                             options, git) ]

generate_results_found_only(rules_, rules_results, options, git) ==
    LET kept == SelectSeq(rules_results,
                          LAMBDA r : position(rules_, r.rule_name).some)
        each == Flatten([ i \in 1..Len(kept) |->
                            results_of_rule_result(rules_, kept[i], options, git) ])
    IN  IF \E i \in DOMAIN each : each[i].panic THEN Panicked
        ELSE Returned([ i \in DOMAIN each |-> each[i].value ])

\* Lines 200-305: the results of every violation of every rule result, in
\* the order of the rule results and of their violations.
generate_results(rules_, rules_results, options, git) ==
    LET each == Flatten([ i \in 1..Len(rules_results) |->
                            results_of_rule_result(rules_, rules_results[i],
                                                   options, git) ])
    IN  IF \E i \in DOMAIN each : each[i].panic THEN Panicked
        ELSE Returned([ i \in DOMAIN each |-> each[i].value ])

\* Lines 310-345: panics when git information is asked for and the
\* directory is no repository; otherwise the tool section, then the results.
generate_sarif_report(rules_, rules_results, add_git_info, git) ==
    IF add_git_info /\ ~git.repo_ok THEN Panicked
    ELSE LET options == [add_git_info |-> add_git_info, git_repo |-> add_git_info]
             tool == generate_tool_section(rules_)
             results == generate_results(rules_, rules_results, options, git)
         IN  IF tool.panic \/ results.panic THEN Panicked
             ELSE Returned(
                    [ version |-> "2.1.0",
                      runs |-> << [ tool |-> tool.value,
                                    results |-> results.value ] >> ])

(***************************************************************************)
(* The report: each step applies one operation to arguments drawn from     *)
(* the bounded sets.                                                       *)
(***************************************************************************)
InitReport ==
    /\ args = [parse_ok |-> TRUE, v |-> FALSE, h |-> FALSE, o |-> TRUE,
               i |-> TRUE, is_dir |-> TRUE, config |-> "none", r |-> TRUE]
    /\ pc = "write"
    /\ MainStart
    /\ EnvIdle
    /\ ReportIdle
    /\ ScatterIdle

\* Lines 75-144: an Edit is converted.
ConvertEdit ==
    /\ op = "none"
    /\ \E e \in Edits :
         /\ op' = "edit"
         /\ input' = e
         /\ output' = into_sarif_edit(e)
    /\ UNCHANGED << mainvars, envvars, scattervars >>

\* The sequences of at most n elements of S.
SeqsUpTo(S, n) == UNION { [1..k -> S] : k \in 0..n }

\* A description as the rule files carry it: the base64 of a UTF-8 text.
ValidDescription == Some(Encoded(TRUE, TRUE, "awesome rule"))

\* kernel::model::rule::Rule, with the fields the report reads.
SarifRule(name, severity) ==
    [ name                     |-> name,
      severity                 |-> severity,
      category                 |-> "best_practices",
      description_base64       |-> ValidDescription,
      short_description_base64 |-> ValidDescription ]

\* kernel::model::violation::Violation without fix.
PlainViolation(line, message) ==
    [ start    |-> Position(line, 1),
      end      |-> Position(line, 2),
      message  |-> message,
      severity |-> "Warning",
      category |-> "best_practices",
      fixes    |-> << >> ]

\* kernel::model::rule::RuleResult.
RuleResultOf(rule_name, filename, violations, execution_time_ms, errors) ==
    [ rule_name         |-> rule_name,
      filename          |-> filename,
      violations        |-> violations,
      execution_time_ms |-> execution_time_ms,
      errors            |-> errors ]

NoGit == [repo_ok |-> FALSE, blamed_files |-> {}, blamed_lines |-> {}]

ReportInput(rules_, rules_results, add_git_info, git) ==
    [ rules        |-> rules_,
      rule_results |-> rules_results,
      add_git_info |-> add_git_info,
      git          |-> git ]

\* Rule lists in which a name can occur twice, with every severity, and one
\* rule result whose rule is or is not in the list.
RuleIndexInputs(max_rules) ==
    { ReportInput(rs,
                  << RuleResultOf(n, "myfile", << PlainViolation(1, "violation message") >>,
                                  0, << >>) >>,
                  FALSE, NoGit) :
        rs \in SeqsUpTo({ SarifRule(name, severity) :
                            name \in {"r1", "r2"}, severity \in Severities },
                        max_rules),
        n \in {"r1", "r2", "r3"} }

\* The message of the violation on a line.
MessageOf(line) == IF line % 2 = 1 THEN "m1" ELSE "m2"

\* Sequences of rule results with zero or more violations each, on the
\* lines 1, 2, ... of the file.
ResultOrderInputs(max_results, max_violations) ==
    { ReportInput(<< SarifRule("r1", "Error") >>, rrs, FALSE, NoGit) :
        rrs \in SeqsUpTo(
                  { RuleResultOf(k[1], k[2],
                                 [ i \in 1..n |-> PlainViolation(i, MessageOf(i)) ],
                                 0, << >>) :
                      k \in { << "r1", "f1" >>, << "r3", "f2" >> },
                      n \in 0..max_violations },
                  max_results) }

\* The edits of the fixes: one that deletes and one that replaces.
SampleEdits ==
    { [edit_type |-> "Remove", start |-> Position(1, 1),
       end |-> Some(Position(1, 2)), content |-> None],
      [edit_type |-> "Update", start |-> Position(1, 1),
       end |-> Some(Position(2, 1)), content |-> Some("newcontent")] }

\* One violation with a sequence of fixes, each a sequence of edits.
FixInputs(max_fixes, max_edits) ==
    { ReportInput(<< SarifRule("r1", "Error") >>,
                  << RuleResultOf("r1", "myfile",
                       << [ PlainViolation(1, "violation message")
                              EXCEPT !.fixes = fs ] >>, 0, << >>) >>,
                  FALSE, NoGit) :
        fs \in SeqsUpTo([ description : {"myfix"},
                          edits : SeqsUpTo(SampleEdits, max_edits) ],
                        max_fixes) }

\* Violations on lines with and without blame, in every state of git, with
\* git information asked for or not.
GitInputs(max_violations) ==
    { ReportInput(<< SarifRule("r1", "Error") >>,
                  << RuleResultOf("r1", "myfile",
                       [ i \in DOMAIN ls |-> PlainViolation(ls[i], "violation message") ],
                       0, << >>) >>,
                  g, git) :
        ls \in SeqsUpTo(0..MaxPos, max_violations) \ { << >> },
        g \in BOOLEAN,
        git \in GitStates({"myfile"}) }

\* The descriptions a rule can carry: none, the base64 of a UTF-8 text, the
\* base64 of bytes that are not UTF-8, a payload that is not base64.
DescriptionOptions ==
    { None, ValidDescription,
      Some(Encoded(TRUE, FALSE, "")), Some(Encoded(FALSE, FALSE, "")) }

\* Edits of every kind, with and without content.
EditsOfAnyContent ==
    [ edit_type : EditTypes,
      start     : {Position(1, 1)},
      end       : {Some(Position(1, 2))},
      content   : {None, Some("newcontent")} ]

\* One rule with any descriptions and one violation with no fix or with a
\* fix of one edit, git information not asked for.
ContentInputs ==
    { ReportInput(<< [ SarifRule("r1", "Error")
                         EXCEPT !.description_base64 = d,
                                !.short_description_base64 = sd ] >>,
                  << RuleResultOf("r1", "myfile",
                       << [ PlainViolation(1, "violation message")
                              EXCEPT !.fixes = fs ] >>, 0, << >>) >>,
                  FALSE, NoGit) :
        d \in DescriptionOptions,
        sd \in DescriptionOptions,
        fs \in { << >> } \cup
               { << [description |-> "myfix", edits |-> << e >>] >> :
                   e \in EditsOfAnyContent } }

\* Lines 310-345: a report is generated.
GenerateReport(inputs) ==
    /\ op = "none"
    /\ \E in \in inputs :
         /\ op' = "report"
         /\ input' = in
         /\ output' = generate_sarif_report(in.rules, in.rule_results,
                                            in.add_git_info, in.git)
    /\ UNCHANGED << mainvars, envvars, scattervars >>

\* kernel::model::analysis::ERROR_RULE_TIMEOUT.
ERROR_RULE_TIMEOUT == "rule-timeout"

\* The error lists of a rule result: an error that is no timeout, and a
\* timeout after it.
ErrorLists ==
    { << "error-decoding-base64" >>,
      << "error-decoding-base64", ERROR_RULE_TIMEOUT >> }

\* The aggregated results the statistics are computed from.
StatisticsInputs(max_results, max_time) ==
    SeqsUpTo({ RuleResultOf(n, "myfile", << >>, t, errs) :
                 n \in {"r1", "r2"}, t \in 0..max_time, errs \in ErrorLists },
             max_results)

rules_execution_time_max(results) ==
    [ n \in { results[i].rule_name : i \in DOMAIN results } |->
        CHOOSE t \in 0..MaxTime :
            /\ \E i \in DOMAIN results :
                  results[i].rule_name = n /\ results[i].execution_time_ms = t
            /\ \A i \in DOMAIN results :
                  results[i].rule_name = n => results[i].execution_time_ms <= t ]

\* Lines 320-326: the loop over the results, from the map built so far.
RECURSIVE execution_times(_, _)
execution_times(results, map) ==
    IF results = << >> THEN map
    ELSE LET rule_result == Head(results)
             current_value == IF rule_result.rule_name \in DOMAIN map
                              THEN map[rule_result.rule_name] ELSE 0
             new_value == current_value + rule_result.execution_time_ms
         IN  execution_times(Tail(results),
                 [ n \in DOMAIN map \cup {rule_result.rule_name} |->
                     IF n = rule_result.rule_name THEN new_value ELSE map[n] ])

\* Lines 317-326: rules_execution_time_ms.
rules_execution_time(results) == execution_times(results, << >>)

\* Lines 342-346: the results whose errors contain the timeout code.
rules_timed_out(results) ==
    SelectSeq(results, LAMBDA r : ERROR_RULE_TIMEOUT \in Range(r.errors))

\* Lines 314-353: the statistics are shown when they are enabled: the time
\* of every rule, longest first (rules of equal time in the order the map
\* iterates them), then the results that timed out.
Statistics ==
    /\ op = "none"
    /\ \E enable_performance_statistics \in BOOLEAN,
          results \in StatisticsInputs(MaxResults, MaxTime) :
         /\ op' = "statistics"
         /\ input' = [ enable_performance_statistics |-> enable_performance_statistics,
                       all_rule_results |-> results ]
         /\ IF enable_performance_statistics
            THEN LET times == rules_execution_time(results)
                 IN  \E shown \in Orderings(DOMAIN times) :
                        /\ \A i, j \in DOMAIN shown :
                              i < j => times[shown[i]] >= times[shown[j]]
                        /\ output' =
                             [ execution_time |->
                                 [ i \in DOMAIN shown |->
                                     [rule |-> shown[i], ms |-> times[shown[i]]] ],
                               timed_out |-> rules_timed_out(results) ]
            ELSE output' = [execution_time |-> << >>, timed_out |-> << >>]
    /\ UNCHANGED << mainvars, envvars, scattervars >>

NextReport ==
    \/ ConvertEdit
    \/ GenerateReport(RuleIndexInputs(MaxSarifRules))
    \/ GenerateReport(ResultOrderInputs(MaxResults, MaxViolations))
    \/ GenerateReport(FixInputs(MaxFixes, MaxEdits))
    \/ GenerateReport(GitInputs(MaxViolations))
    \/ GenerateReport(ContentInputs)
    \/ Statistics

SpecReport == InitReport /\ [][NextReport]_vars

\* p is before q in the file.
Before(p, q) == p.line < q.line \/ (p.line = q.line /\ p.col < q.col)

\* C13: the replacement generated from an Add edit at (l, c) with content s
\* deletes the zero-width region from (l, c) to (l, c) and inserts the text s.
C13_AddIsZeroWidthInsertion ==
    (op = "edit" /\ input.edit_type = "Add" /\ input.content.some) =>
        /\ ~output.panic
        /\ output.value.deletedRegion =
             Region(input.start.line, input.start.col,
                    input.start.line, input.start.col)
        /\ output.value.insertedContent = Some([text |-> input.content.value])

C13_Witness ==
    /\ op = "edit"
    /\ input.edit_type = "Add"
    /\ input.content.some
    /\ input.end.some
    /\ input.end.value # input.start
    /\ ~output.panic

\* C14: the replacement generated from a Remove edit deletes the region from
\* the edit's start to the edit's end and inserts nothing.
C14_RemoveMirrorsDeletedRange ==
    (op = "edit" /\ input.edit_type = "Remove" /\ input.end.some) =>
        /\ ~output.panic
        /\ output.value.deletedRegion =
             Region(input.start.line, input.start.col,
                    input.end.value.line, input.end.value.col)
        /\ ~output.value.insertedContent.some

\* A position counted from 1.
OneBased(p) == p.line >= 1 /\ p.col >= 1

\* C20: an edit with a 1-based start and, when it has an end, a 1-based end
\* not before the start, gives a deleted region whose values are at least 1
\* and whose end is not before its start.
C20_RegionWellFormed ==
    ( /\ op = "edit"
      /\ OneBased(input.start)
      /\ input.end.some => ( /\ OneBased(input.end.value)
                             /\ ~Before(input.end.value, input.start) )
      /\ ~output.panic ) =>
        LET region == output.value.deletedRegion
        IN  /\ region.startLine >= 1
            /\ region.startColumn >= 1
            /\ region.endLine >= 1
            /\ region.endColumn >= 1
            /\ ~Before(Position(region.endLine, region.endColumn),
                       Position(region.startLine, region.startColumn))

(***************************************************************************)
(* The parallel section of main (lines 275-293) run twice over one batch:  *)
(* the workers of the pool take the files and complete them in any order.  *)
(***************************************************************************)
\* The batches: the files of one language, each readable or not, the rules
\* of that language, and the number of workers of the pool.
ScatterBatches ==
    [ language    : {"python"},
      files       : UNION { { fs \in [1..k -> [name : 1..MaxFiles,
                                                language : {"python"},
                                                readable : BOOLEAN]] :
                                \A i \in 1..k : fs[i].name = i } :
                            k \in 0..MaxFiles },
      rules       : { rs \in RuleLists :
                        \A i \in DOMAIN rs : /\ rs[i].language = "python"
                                             /\ rs[i].decodable
                                             /\ rs[i].checksum_ok },
      num_threads : { NumThreads(c) : c \in 1..MaxCpus } ]

\* The execution time analyze measures for a file differs from run to run.
Durations == {0, 1}

\* The results of a file with the execution time measured in this run.
timed(results, t) ==
    [ i \in DOMAIN results |->
        [ rule_name         |-> results[i].rule_name,
          filename          |-> results[i].filename,
          violations        |-> results[i].violations,
          execution_time_ms |-> t ] ]

par_collect_last_completed(files_for_language, results, completion) ==
    IF completion = << >> THEN << >>
    ELSE results[completion[Len(completion)]]

\* Lines 275-276, 293: into_par_iter().flat_map(...).collect() returns the
\* values of the closure in the order of the files, whatever the order in
\* which the workers completed them.
par_collect(files_for_language, results, completion) ==
    Gather(files_for_language, results)

InitScatter ==
    /\ args = [parse_ok |-> TRUE, v |-> FALSE, h |-> FALSE, o |-> TRUE,
               i |-> TRUE, is_dir |-> TRUE, config |-> "none", r |-> TRUE]
    /\ pc = "analyze"
    /\ MainStart
    /\ EnvIdle
    /\ ReportIdle
    /\ run = 1
    /\ batch \in ScatterBatches
    /\ started = {}
    /\ completed = << >>
    /\ closure_value = << >>
    /\ gathered = << >>

\* The workers that hold a file.
Busy == started \ Range(completed)

\* Line 277: a free worker of the pool takes a file of the batch.
WorkerStart ==
    /\ run \in {1, 2}
    /\ Cardinality(Busy) < batch.num_threads
    /\ \E i \in DOMAIN batch.files :
         /\ i \notin started
         /\ started' = started \cup {i}
    /\ UNCHANGED << run, batch, completed, closure_value, gathered >>
    /\ UNCHANGED << mainvars, envvars, reportvars >>

\* Lines 277-292: a worker returns the value of the closure for its file.
WorkerComplete ==
    /\ run \in {1, 2}
    /\ \E i \in Busy, t \in Durations :
         LET f == batch.files[i]
             res == timed(ReadResult(batch.language, batch.rules, f, f.readable), t)
         IN  /\ closure_value' =
                   [ x \in DOMAIN closure_value \cup {i} |->
                       IF x = i THEN res ELSE closure_value[x] ]
             /\ completed' = Append(completed, i)
    /\ UNCHANGED << run, batch, started, gathered >>
    /\ UNCHANGED << mainvars, envvars, reportvars >>

\* Line 293: every file is completed and collect() returns.
GatherRun ==
    /\ run \in {1, 2}
    /\ Len(completed) = Len(batch.files)
    /\ gathered' = Append(gathered,
                          [ results    |-> par_collect(batch.files, closure_value, completed),
                            completion |-> completed ])
    /\ run' = run + 1
    /\ started' = {}
    /\ completed' = << >>
    /\ closure_value' = << >>
    /\ UNCHANGED batch
    /\ UNCHANGED << mainvars, envvars, reportvars >>

NextScatter ==
    \/ WorkerStart
    \/ WorkerComplete
    \/ GatherRun

SpecScatter == InitScatter /\ [][NextScatter]_vars

\* The violations of gathered results: for every result its rule, its file
\* and its violations, without the execution time.
ViolationSets(results) ==
    { [ rule_name  |-> results[i].rule_name,
        filename   |-> results[i].filename,
        violations |-> results[i].violations ] : i \in DOMAIN results }

Reported == op = "report" /\ ~output.panic

\* The results and the rule descriptors of the returned report.
ReportResults == output.value.runs[1].results
ReportDescriptors == output.value.runs[1].tool.driver.rules

\* The first rule of the list whose name is n, if any, counted from 1.
IsFirstNamed(rules_, j, n) ==
    /\ j \in DOMAIN rules_
    /\ rules_[j].name = n
    /\ \A h \in 1..(j - 1) : rules_[h].name # n

\* The level the report format gives a severity.
LevelOf(severity) ==
    CASE severity = "Notice"  -> "note"
      [] severity = "Warning" -> "warning"
      [] severity = "Error"   -> "error"
      [] OTHER                -> "none"

\* C11: the level of every result of the report is the level of the severity
\* of the rule the result belongs to: "note" for Notice, "warning" for
\* Warning, "error" for Error and "none" for any other severity.
C11_LevelFromRuleSeverity ==
    Reported =>
        \A i \in DOMAIN ReportResults :
            \A j \in DOMAIN input.rules :
                IsFirstNamed(input.rules, j, ReportResults[i].ruleId) =>
                    ReportResults[i].level = Some(LevelOf(input.rules[j].severity))

C11_Witness ==
    /\ Reported
    /\ Len(input.rules) = 2
    /\ input.rules[1].severity = "Notice"
    /\ input.rules[2].severity = "None"
    /\ input.rules[1].name # input.rules[2].name
    /\ \E i \in DOMAIN ReportResults :
          /\ ReportResults[i].ruleId = input.rules[1].name
          /\ ReportResults[i].level = Some("note")

\* The number of violations of the rule results before result i.
RECURSIVE Offset(_, _)
Offset(rrs, i) ==
    IF i <= 1 THEN 0 ELSE Offset(rrs, i - 1) + Len(rrs[i - 1].violations)

\* C12: a result carries a ruleIndex exactly when a rule of the list has its
\* rule name; the index is that of the first such rule and the descriptor at
\* that index has the result's ruleId as id; a result whose rule is not in
\* the list is emitted all the same, without ruleIndex.
C12_RuleIndexIffRuleFound ==
    Reported =>
        /\ Len(ReportResults) = Offset(input.rule_results, Len(input.rule_results) + 1)
        /\ \A i \in DOMAIN ReportResults :
             LET result == ReportResults[i]
             IN  /\ result.ruleIndex.some <=>
                       (\E j \in DOMAIN input.rules : input.rules[j].name = result.ruleId)
                 /\ result.ruleIndex.some =>
                       /\ IsFirstNamed(input.rules, result.ruleIndex.value + 1, result.ruleId)
                       /\ ReportDescriptors[result.ruleIndex.value + 1].id = result.ruleId

C12_Witness ==
    /\ Reported
    /\ Len(input.rules) = 2
    /\ input.rules[1].name = input.rules[2].name
    /\ Len(ReportResults) = 1
    /\ ReportResults[1].ruleId = input.rules[1].name
    /\ ReportResults[1].ruleIndex = Some(0)

\* The rule of the result is not in the list: the result is emitted without
\* ruleIndex.
C12_WitnessNotFound ==
    /\ Reported
    /\ Len(input.rules) = 2
    /\ Len(ReportResults) = 1
    /\ \A j \in DOMAIN input.rules : input.rules[j].name # ReportResults[1].ruleId
    /\ ~ReportResults[1].ruleIndex.some

\* Blame information exists for a line of a file.
BlameAvailable(git, filename, line) ==
    /\ git.repo_ok
    /\ filename \in git.blamed_files
    /\ line \in git.blamed_lines

\* C15: without git information no result has a fingerprint; with it, the
\* report is generated whatever the repository, the file and the line are, a
\* result has a fingerprint only when blame information exists for its
\* starting line, and the fingerprint is keyed "SHA".
C15_MissingBlameIsNotFatal ==
    op = "report" =>
        /\ input.add_git_info => ~output.panic
        /\ ~output.panic => \A i \in DOMAIN ReportResults :
             LET result == ReportResults[i]
                 region == result.locations[1].physicalLocation.region
                 uri == result.locations[1].physicalLocation.artifactLocation.uri
             IN  /\ \A fp \in result.partialFingerprints : fp[1] = "SHA"
                 /\ result.partialFingerprints # {} =>
                       /\ input.add_git_info
                       /\ BlameAvailable(input.git, uri, region.startLine)

\* C17: the report has one result per violation, in the order of the rule
\* results and, within a rule result, of its violations; each has the rule
\* name of its rule result as ruleId and its filename as location URI.
C17_OneResultPerViolationInOrder ==
    Reported =>
        /\ Len(ReportResults) = Offset(input.rule_results, Len(input.rule_results) + 1)
        /\ \A i \in DOMAIN input.rule_results :
             \A k \in DOMAIN input.rule_results[i].violations :
                LET rule_result == input.rule_results[i]
                    violation == rule_result.violations[k]
                    result == ReportResults[Offset(input.rule_results, i) + k]
                    location == result.locations[1].physicalLocation
                IN  /\ result.ruleId = rule_result.rule_name
                    /\ Len(result.locations) = 1
                    /\ location.artifactLocation.uri = rule_result.filename
                    /\ location.region.startLine = violation.start.line
                    /\ result.message.text = violation.message

C17_Witness ==
    /\ Reported
    /\ Len(input.rule_results) = 2
    /\ input.rule_results[1].violations = << >>
    /\ Len(input.rule_results[2].violations) = 2
    /\ input.rule_results[2].violations[1].message
         # input.rule_results[2].violations[2].message
    /\ input.rule_results[2].rule_name = "r3"
    /\ Len(ReportResults) = 2

\* C19: every fix of a violation gives one fix of the result, with exactly
\* one artifact change, for the file of the violation, whose replacements are
\* those of the edits of the fix, one per edit, in the order of the edits.
C19_FixEditsKeptTogether ==
    Reported =>
        \A i \in DOMAIN input.rule_results :
            \A k \in DOMAIN input.rule_results[i].violations :
                LET rule_result == input.rule_results[i]
                    violation == rule_result.violations[k]
                    result == ReportResults[Offset(input.rule_results, i) + k]
                IN  /\ Len(result.fixes) = Len(violation.fixes)
                    /\ \A f \in DOMAIN violation.fixes :
                         LET changes == result.fixes[f].artifactChanges
                             edits == violation.fixes[f].edits
                         IN  /\ Len(changes) = 1
                             /\ changes[1].artifactLocation.uri = rule_result.filename
                             /\ Len(changes[1].replacements) = Len(edits)
                             /\ \A e \in DOMAIN edits :
                                  Returned(changes[1].replacements[e])
                                      = into_sarif_edit(edits[e])

C19_Witness ==
    /\ Reported
    /\ Len(input.rule_results) = 1
    /\ Len(input.rule_results[1].violations) = 1
    /\ LET fixes == input.rule_results[1].violations[1].fixes
       IN  /\ Len(fixes) = 2
           /\ Len(fixes[1].edits) = 2
           /\ fixes[1].edits[1].edit_type = "Remove"
           /\ fixes[1].edits[2].edit_type = "Update"
           /\ Len(fixes[2].edits) = 1
    /\ Len(ReportResults[1].fixes) = 2

\* The statistics were shown.
StatisticsShown == op = "statistics" /\ input.enable_performance_statistics

\* The sum of the execution times of the results of rule n.
TimeOfRule(results, n) ==
    SeqSum([ i \in DOMAIN results |->
               IF results[i].rule_name = n THEN results[i].execution_time_ms ELSE 0 ])

\* The results that carry the timeout code, in the order of the results.
RECURSIVE TimedOutOf(_)
TimedOutOf(results) ==
    IF results = << >> THEN << >>
    ELSE IF \E k \in DOMAIN Head(results).errors :
               Head(results).errors[k] = ERROR_RULE_TIMEOUT
         THEN << Head(results) >> \o TimedOutOf(Tail(results))
         ELSE TimedOutOf(Tail(results))

\* C18: with the statistics enabled, every rule name of the aggregated
\* results is shown once, with the sum of the execution times of its
\* results, and the results shown as timed out are exactly those whose
\* errors contain the timeout code.
C18_StatisticsOfAggregatedResults ==
    StatisticsShown =>
        LET results == input.all_rule_results
            names == { results[i].rule_name : i \in DOMAIN results }
        IN  /\ { output.execution_time[i].rule : i \in DOMAIN output.execution_time } = names
            /\ Len(output.execution_time) = Cardinality(names)
            /\ \A i \in DOMAIN output.execution_time :
                  output.execution_time[i].ms
                      = TimeOfRule(results, output.execution_time[i].rule)
            /\ output.timed_out = TimedOutOf(results)

C18_Witness ==
    /\ StatisticsShown
    /\ Len(input.all_rule_results) = 2
    /\ input.all_rule_results[1].rule_name = input.all_rule_results[2].rule_name
    /\ input.all_rule_results[1].execution_time_ms = 1
    /\ input.all_rule_results[2].execution_time_ms = 2
    /\ ERROR_RULE_TIMEOUT \notin Range(input.all_rule_results[1].errors)
    /\ ERROR_RULE_TIMEOUT \in Range(input.all_rule_results[2].errors)
    /\ output.execution_time[1].ms = 3
    /\ Len(output.timed_out) = 1

\* C21: with git information not asked for, generate_sarif_report returns
\* (a report or an error value) for every list of rules and of rule results,
\* also when an Add or an Update edit has no content and when a description
\* of a rule is not base64.
C21_ReportNeverAborts ==
    (op = "report" /\ ~input.add_git_info) => ~output.panic

====
